---- MODULE Spec2Model ----
(***************************************************************************)
(* LSB steganography codec of steg_module.js: StegModule.prototype.hide    *)
(* and StegModule.prototype.unhide over the pixel bytes of a Ppm image.    *)
(*                                                                         *)
(* Strings of character codes (msg, message, hiddenMessage) are sequences  *)
(* of integers; digit strings (binaryNum, hexa, hexOfCh, binOfCh) are      *)
(* sequences of one-character strings.  Pixel indices are 0-based as in    *)
(* the source; At(a, i) reads a[i].                                        *)
(***************************************************************************)
EXTENDS Integers, Sequences, FiniteSets, TLC

VARIABLES
    ppm,          \* this.ppm.pixelBytes of the StegModule object
    fixedLength,  \* whether Ppm keeps pixelBytes in a fixed-length byte buffer
                  \* (stores past the end are dropped) or in a growable array
    op,           \* "new" after construction, then the method called
    msgArg,       \* the msg argument of the call to hide
    ret,          \* the object the call returned
    counter,      \* the final value of counter in the call
    count,        \* the final value of count in the call to hide
    parent        \* where this.ppm comes from: given by the caller, or returned
                  \* by hide(parent.msg) on a source of parent.srcLen pixel bytes

vars == <<ppm, fixedLength, op, msgArg, ret, counter, count, parent>>

(***************************************************************************)
(* Bounds of the model.                                                    *)
(***************************************************************************)
\* longest message handed to hide
MaxMsgLen == 1
\* largest number of complete 8-pixel groups of an initial image
MaxBytes == 5

(***************************************************************************)
(* JavaScript values.                                                      *)
(***************************************************************************)
\* the value of an array read outside 0..length-1 (or of a hole)
Undefined == -1
\* the number NaN (charCodeAt outside the string, parseInt of no digits)
NaN == -2
\* the character code of '\0'
NUL == 0
\* 's', 't', 'g'
STEG_MAGIC == <<115, 116, 103>>
\* pixel bytes read or written per character (the j loops)
BitsPerChar == 8
\* the extra iterations of the write loop: while (i < msg.length + 4)
WriteLoopExtra == 4
\* the number of characters the magic check of hide decodes: for (i < 3)
MagicCheckChars == 3

\* a[i] of a JavaScript array or string, 0-based
At(a, i) == IF i >= 0 /\ i < Len(a) THEN a[i + 1] ELSE Undefined

\* s[i] of a digit string; the result is compared with '0' and '1' only
DigitAt(s, i) == IF i >= 0 /\ i < Len(s) THEN s[i + 1] ELSE "undefined"

\* s.substr(k, n)
Substr(s, k, n) == SubSeq(s, k + 1, IF k + n <= Len(s) THEN k + n ELSE Len(s))

\* s.substr(-n)
SubstrLast(s, n) == IF Len(s) <= n THEN s ELSE SubSeq(s, Len(s) - n + 1, Len(s))

HexDigits == <<"0", "1", "2", "3", "4", "5", "6", "7", "8", "9", "a", "b", "c", "d", "e", "f">>

\* the value of digit character d in the given radix, or NaN
DigitValue(d, radix) ==
    IF \E v \in 1..radix : HexDigits[v] = d
    THEN (CHOOSE v \in 1..radix : HexDigits[v] = d) - 1
    ELSE NaN

RECURSIVE ParseDigits(_, _, _, _)
ParseDigits(s, radix, k, acc) ==
    IF k > Len(s) \/ DigitValue(s[k], radix) = NaN
    THEN acc
    ELSE ParseDigits(s, radix, k + 1, acc * radix + DigitValue(s[k], radix))

\* parseInt(s, radix): the longest prefix of digits, NaN when there is none
ParseInt(s, radix) ==
    IF Len(s) = 0 \/ DigitValue(s[1], radix) = NaN
    THEN NaN
    ELSE ParseDigits(s, radix, 1, 0)

RECURSIVE Digits(_, _)
Digits(n, radix) ==
    IF n < radix
    THEN <<HexDigits[n + 1]>>
    ELSE Digits(n \div radix, radix) \o <<HexDigits[(n % radix) + 1]>>

\* n.toString(radix)
NumToString(n, radix) == IF n = NaN THEN <<"N", "a", "N">> ELSE Digits(n, radix)

\* s.charCodeAt(i)
CharCodeAt(s, i) == IF i >= 0 /\ i < Len(s) THEN s[i + 1] ELSE NaN

\* pixelBytes[c] % 2 === 0 (undefined % 2 is NaN, which is not 0)
IsEven(v) == v # Undefined /\ v % 2 = 0

\* ReadBit with the parity test the wrong way round
ReadBit_Inverted(pixelBytes, c) == IF IsEven(At(pixelBytes, c)) THEN "1" ELSE "0"

\* one character of binaryNum
ReadBit(pixelBytes, c) == IF IsEven(At(pixelBytes, c)) THEN "0" ELSE "1"

\* binaryNum after the j loop that starts at pixel index c
BinaryNum(pixelBytes, c) == [j \in 1..BitsPerChar |-> ReadBit(pixelBytes, c + j - 1)]

RECURSIVE HexToAscii(_, _)
\* for (k = 0; k < hexa.length; k += 2) chAscii += String.fromCharCode(parseInt(hexa.substr(k, 2), 16))
HexToAscii(hexa, k) ==
    IF k >= Len(hexa)
    THEN <<>>
    ELSE <<ParseInt(Substr(hexa, k, 2), 16)>> \o HexToAscii(hexa, k + 2)

\* chAscii of the 8 pixel bytes that start at index c
ChAscii(pixelBytes, c) ==
    HexToAscii(NumToString(ParseInt(BinaryNum(pixelBytes, c), 2), 16), 0)

(***************************************************************************)
(* Return values.  An error message is the pair of its ID and the text     *)
(* that follows the ID.                                                    *)
(***************************************************************************)
NoReturn == [kind |-> "none", error |-> <<"", "">>, ppm |-> <<>>, msg |-> <<>>]
ReturnError(id, text) == [kind |-> "error", error |-> <<id, text>>, ppm |-> <<>>, msg |-> <<>>]
ReturnPpm(ppmOut) == [kind |-> "ppm", error |-> <<"", "">>, ppm |-> ppmOut, msg |-> <<>>]
ReturnMsg(hiddenMessage) == [kind |-> "msg", error |-> <<"", "">>, ppm |-> <<>>, msg |-> hiddenMessage]

(***************************************************************************)
(* hide                                                                    *)
(***************************************************************************)
\* msg = STEG_MAGIC + msg + '\0'
MagicMsg(msg) == STEG_MAGIC \o msg \o <<NUL>>

\* new Ppm(this.ppm): a copy of the image, pixel bytes included
PpmCopy(pixelBytes) == pixelBytes

\* msg.length > ppmOut.pixelBytes.length
TooBig(magicMsg, pixelBytes) == Len(magicMsg) > Len(pixelBytes)

RECURSIVE MagicCheckMessage(_, _)
\* message after the "stg control" loop, from iteration i on
MagicCheckMessage(pixelBytes, i) ==
    IF i >= MagicCheckChars
    THEN <<>>
    ELSE ChAscii(pixelBytes, BitsPerChar * i) \o MagicCheckMessage(pixelBytes, i + 1)

\* message === STEG_MAGIC
AlreadyHidden(pixelBytes) == MagicCheckMessage(pixelBytes, 0) = STEG_MAGIC

\* BinOfCh without the "00000000" padding
BinOfCh_NoPad(magicMsg, i) ==
    SubstrLast(NumToString(ParseInt(NumToString(CharCodeAt(magicMsg, i), 16), 16), 2),
               BitsPerChar)

\* hexOfCh, then binOfCh, of msg.charCodeAt(i)
BinOfCh(magicMsg, i) ==
    SubstrLast(<<"0", "0", "0", "0", "0", "0", "0", "0">>
                 \o NumToString(ParseInt(NumToString(CharCodeAt(magicMsg, i), 16), 16), 2),
               BitsPerChar)

\* v | 1
Or1(v) == IF v % 2 = 0 THEN v + 1 ELSE v

\* v & (((1<<(8))-1)<<1), the mask being 510; undefined & 510 is 0
And510(v) == IF v = Undefined THEN 0 ELSE (v % 512) - (v % 2)

\* the number of iterations of while (i < msg.length + 4)
WriteLoopChars(magicMsg) == Len(magicMsg) + WriteLoopExtra

\* binOfCh[j] when count is c: i is c div 8 and j is c mod 8
WriteLoopBit(magicMsg, c) == DigitAt(BinOfCh(magicMsg, c \div BitsPerChar), c % BitsPerChar)

\* whether the body of the j loop stores to pixelBytes[count], v being the
\* value read there and b being binOfCh[j]
Stores(v, b) == IF IsEven(v) THEN b = "1" ELSE b = "0"

\* WriteBit without the branch that clears the LSB of an odd pixel byte
WriteBit_NeverClears(v, b) == IF IsEven(v) /\ b = "1" THEN Or1(v) ELSE v

\* the value the body of the j loop leaves at pixelBytes[count]
WriteBit(v, b) ==
    IF IsEven(v)
    THEN IF b = "1" THEN Or1(v) ELSE v
    ELSE IF b = "0" THEN And510(v) ELSE v

\* pixelBytes.length after the write loop: a store outside a fixed-length
\* buffer is dropped, a growable array is extended up to the stored index
WriteLoopLength(pixelBytes, magicMsg) ==
    LET outside == {c \in Len(pixelBytes)..(BitsPerChar * WriteLoopChars(magicMsg) - 1) :
                       Stores(Undefined, WriteLoopBit(magicMsg, c))}
    IN  IF fixedLength \/ outside = {}
        THEN Len(pixelBytes)
        ELSE 1 + (CHOOSE m \in outside : \A c \in outside : c <= m)

\* ppmOut.pixelBytes after the write loop: count visits every index below
\* 8 * (msg.length + 4) once, in order
WriteLoop(pixelBytes, magicMsg) ==
    [k \in 1..WriteLoopLength(pixelBytes, magicMsg) |->
        IF k - 1 < BitsPerChar * WriteLoopChars(magicMsg)
        THEN WriteBit(At(pixelBytes, k - 1), WriteLoopBit(magicMsg, k - 1))
        ELSE pixelBytes[k]]

\* the return value of hide(msg) on pixelBytes
HideReturn(pixelBytes, msg) ==
    IF TooBig(MagicMsg(msg), PpmCopy(pixelBytes))
    THEN ReturnError("STEG_TOO_BIG", " error!")
    ELSE IF AlreadyHidden(PpmCopy(pixelBytes))
         THEN ReturnError("STEG_MSG", ": image already contains a hidden message!")
         ELSE ReturnPpm(WriteLoop(PpmCopy(pixelBytes), MagicMsg(msg)))

\* the final value of counter in hide
HideCounter(pixelBytes, msg) ==
    IF TooBig(MagicMsg(msg), pixelBytes) THEN 0 ELSE BitsPerChar * MagicCheckChars

\* the final value of count in hide
HideCount(pixelBytes, msg) ==
    IF TooBig(MagicMsg(msg), pixelBytes) \/ AlreadyHidden(pixelBytes)
    THEN 0
    ELSE BitsPerChar * WriteLoopChars(MagicMsg(msg))

(***************************************************************************)
(* unhide                                                                  *)
(***************************************************************************)
RECURSIVE UnhideLoop(_, _, _, _)
\* while (i < this.ppm.pixelBytes.length && ch !== '\0'); counter is 8 * i
UnhideLoop(pixelBytes, i, message, ch) ==
    IF i < Len(pixelBytes) /\ ch # <<NUL>>
    THEN UnhideLoop(pixelBytes, i + 1,
                    message \o ChAscii(pixelBytes, BitsPerChar * i),
                    ChAscii(pixelBytes, BitsPerChar * i))
    ELSE [i |-> i, message |-> message, ch |-> ch]

\* UnhideDecoded with ch initialised to '\0' before the loop
UnhideDecoded_ChNul(pixelBytes) == UnhideLoop(pixelBytes, 0, <<>>, <<NUL>>)

\* the state of unhide after its loop; ch is undefined before the loop
UnhideDecoded(pixelBytes) == UnhideLoop(pixelBytes, 0, <<>>, <<Undefined>>)

\* HasMagic without the test of message[2]
HasMagic_TwoChars(message) ==
    /\ At(message, 0) = STEG_MAGIC[1]
    /\ At(message, 1) = STEG_MAGIC[2]

\* message[0] === 's' && message[1] === 't' && message[2] == 'g'
HasMagic(message) ==
    /\ At(message, 0) = STEG_MAGIC[1]
    /\ At(message, 1) = STEG_MAGIC[2]
    /\ At(message, 2) = STEG_MAGIC[3]

\* for (l = 3; l < message.length; l++) hiddenMessage += message[l]
HiddenMessage(message) == SubSeq(message, 4, Len(message))

\* the return value of unhide() on pixelBytes
UnhideReturn(pixelBytes) ==
    LET d == UnhideDecoded(pixelBytes) IN
    IF d.ch # <<NUL>>
    THEN ReturnError("STEG_BAD_MSG", ": bad message!")
    ELSE IF HasMagic(d.message)
         THEN ReturnMsg(HiddenMessage(d.message))
         ELSE ReturnError("STEG_NO_MSG", ": image does not have a message!")

\* the final value of counter in unhide
UnhideCounter(pixelBytes) == BitsPerChar * UnhideDecoded(pixelBytes).i

(***************************************************************************)
(* Inputs.                                                                 *)
(***************************************************************************)
\* the characters of the messages handed to hide: '\x07' and 'h'
MsgChars == {7, 104}

Messages == UNION {[1..n -> MsgChars] : n \in 0..MaxMsgLen}

\* the bytes an initial image spells at its k-th group of 8 pixel bytes
GroupBytes(k) == {NUL, 104} \cup (IF k <= Len(STEG_MAGIC) THEN {STEG_MAGIC[k]} ELSE {})

AllGroupBytes == {NUL, 104} \cup {STEG_MAGIC[k] : k \in 1..Len(STEG_MAGIC)}

ByteSeqs ==
    UNION {{s \in [1..n -> AllGroupBytes] : \A k \in 1..n : s[k] \in GroupBytes(k)} :
           n \in 0..MaxBytes}

\* the upper 7 bits of the pixel byte at index c of an initial image
UpperBits(c) == (37 * c + 90) % 128

\* bit j (0 the most significant) of byte b
BitOf(b, j) == (b \div (2 ^ (BitsPerChar - 1 - j))) % 2

\* the lengths of the incomplete group of even pixel bytes that ends an image
Tails == {0, 3, BitsPerChar - 1}

\* the image whose pixel LSBs spell bytes MSB-first, followed by tail even
\* pixel bytes
Image(bytes, tail) ==
    [p \in 1..(BitsPerChar * Len(bytes) + tail) |->
        2 * UpperBits(p - 1)
          + (IF p <= BitsPerChar * Len(bytes)
             THEN BitOf(bytes[((p - 1) \div BitsPerChar) + 1], (p - 1) % BitsPerChar)
             ELSE 0)]

Images == {Image(b, t) : b \in ByteSeqs, t \in Tails}

(***************************************************************************)
(* The state machine: a StegModule object and the calls made on it.        *)
(***************************************************************************)
Given == [made |-> "given", msg |-> <<>>, srcLen |-> 0]

Init ==
    /\ ppm \in Images
    /\ fixedLength \in BOOLEAN
    /\ op = "new"
    /\ msgArg = <<>>
    /\ ret = NoReturn
    /\ counter = 0
    /\ count = 0
    /\ parent = Given

\* result = this.hide(msg).  hide and unhide leave this.ppm as it is, so a
\* StegModule object is followed through one call
Hide(msg) ==
    /\ op = "new"
    /\ op' = "hide"
    /\ msgArg' = msg
    /\ ret' = HideReturn(ppm, msg)
    /\ counter' = HideCounter(ppm, msg)
    /\ count' = HideCount(ppm, msg)
    /\ UNCHANGED <<ppm, fixedLength, parent>>

\* result = this.unhide()
Unhide ==
    /\ op = "new"
    /\ op' = "unhide"
    /\ msgArg' = <<>>
    /\ ret' = UnhideReturn(ppm)
    /\ counter' = UnhideCounter(ppm)
    /\ count' = 0
    /\ UNCHANGED <<ppm, fixedLength, parent>>

\* new StegModule(id, result.ppm) on the image a hide returned
NewStegModule ==
    /\ ret.kind = "ppm"
    /\ ppm' = ret.ppm
    /\ parent' = [made |-> "hide", msg |-> msgArg, srcLen |-> Len(ppm)]
    /\ op' = "new"
    /\ msgArg' = <<>>
    /\ ret' = NoReturn
    /\ counter' = 0
    /\ count' = 0
    /\ UNCHANGED fixedLength

Next ==
    \/ \E msg \in Messages : Hide(msg)
    \/ Unhide
    \/ NewStegModule

Spec == Init /\ [][Next]_vars

(***************************************************************************)
(* Vocabulary of the properties, stated on the pixel bytes themselves.     *)
(***************************************************************************)
\* the byte that the LSBs of the 8 pixel bytes of complete group g spell, MSB-first
LsbByte(pixelBytes, g) ==
    LET lsb(j) == pixelBytes[BitsPerChar * g + j + 1] % 2
    IN  128 * lsb(0) + 64 * lsb(1) + 32 * lsb(2) + 16 * lsb(3)
          + 8 * lsb(4) + 4 * lsb(5) + 2 * lsb(6) + lsb(7)

\* the complete groups of 8 pixel bytes
Groups(pixelBytes) == 0..((Len(pixelBytes) \div BitsPerChar) - 1)

\* the complete groups whose LSBs spell the byte 0x00
NulGroups(pixelBytes) == {g \in Groups(pixelBytes) : LsbByte(pixelBytes, g) = NUL}

\* the first of them
FirstNul(pixelBytes) ==
    CHOOSE g \in NulGroups(pixelBytes) : \A h \in NulGroups(pixelBytes) : g <= h

\* the LSBs of the first 24 pixel bytes spell "stg"
SpellsMagic(pixelBytes) ==
    /\ Len(pixelBytes) >= BitsPerChar * Len(STEG_MAGIC)
    /\ \A k \in 1..Len(STEG_MAGIC) : LsbByte(pixelBytes, k - 1) = STEG_MAGIC[k]

\* the message contains the magic token
ContainsMagic(m) == \E k \in 1..(Len(m) - 2) : SubSeq(m, k, k + 2) = STEG_MAGIC

\* L, the length of "stg" + m + NUL
FramedLen(m) == Len(m) + Len(STEG_MAGIC) + 1

\* the framed form of m needs no more pixel bytes than there are: 8 * L <= n
Fits(m, n) == BitsPerChar * FramedLen(m) <= n

\* the last call returned an error that starts with id
ReturnedError(id) == ret.kind = "error" /\ ret.error[1] = id

\* this.ppm is the image that hide(parent.msg) returned for a source it fits in
HiddenInto == parent.made = "hide" /\ Fits(parent.msg, parent.srcLen)

(***************************************************************************)
(* C1  Round trip.  A message without the magic token that fits is hidden  *)
(* without error, and unhide on the returned image returns exactly that    *)
(* message, nothing appended.                                              *)
(***************************************************************************)
C1_RoundTrip ==
    /\ (op = "hide" /\ Fits(msgArg, Len(ppm)) /\ ~SpellsMagic(ppm) /\ ~ContainsMagic(msgArg))
          => ret.kind = "ppm"
    /\ (op = "unhide" /\ HiddenInto /\ ~ContainsMagic(parent.msg))
          => (ret.kind = "msg" /\ ret.msg = parent.msg)

(***************************************************************************)
(* C2  Capacity boundary.  hide fails with STEG_TOO_BIG exactly when the   *)
(* framed message needs more pixel bytes, one per bit, than the buffer     *)
(* has: 8 * L > N.                                                         *)
(***************************************************************************)
C2_CapacityBoundary ==
    op = "hide" => (ReturnedError("STEG_TOO_BIG") <=> ~Fits(msgArg, Len(ppm)))

(***************************************************************************)
(* C3  Idempotent rejection.  hide on an image that a hide of a fitting    *)
(* message returned fails, for every fitting message, with STEG_MSG.       *)
(***************************************************************************)
C3_SecondHideRejected ==
    (op = "hide" /\ HiddenInto /\ Fits(msgArg, Len(ppm))) => ReturnedError("STEG_MSG")

C3_Witness ==
    /\ op = "hide" /\ HiddenInto /\ Fits(msgArg, Len(ppm))
    /\ msgArg # parent.msg
    /\ ReturnedError("STEG_MSG")

(***************************************************************************)
(* C4  Frame of hide.  Every pixel byte of the returned image at an index  *)
(* i >= 8 * L is the source's pixel byte at i.                             *)
(***************************************************************************)
C4_Frame ==
    (op = "hide" /\ ret.kind = "ppm")
        => \A i \in (BitsPerChar * FramedLen(msgArg))..(Len(ppm) - 1) :
              i < Len(ret.ppm) /\ ret.ppm[i + 1] = ppm[i + 1]

(***************************************************************************)
(* C5  Content of unhide's result.  A returned message is the bytes the    *)
(* pixel LSBs spell after the 3 bytes of the magic token and before the    *)
(* first NUL; it holds no NUL.                                             *)
(***************************************************************************)
C5_UnhideContent ==
    (op = "unhide" /\ ret.kind = "msg")
        => /\ NulGroups(ppm) # {}
           /\ ret.msg = [k \in 1..(FirstNul(ppm) - Len(STEG_MAGIC)) |->
                            LsbByte(ppm, k + Len(STEG_MAGIC) - 1)]
           /\ \A k \in 1..Len(ret.msg) : ret.msg[k] # NUL

(***************************************************************************)
(* C6  Truncated message.  unhide fails with STEG_BAD_MSG exactly when no  *)
(* complete group of 8 pixel bytes spells the byte 0x00, whatever the      *)
(* length of the buffer and also when the bytes begin with "stg".          *)
(***************************************************************************)
C6_BadMsgIff ==
    op = "unhide" => (ReturnedError("STEG_BAD_MSG") <=> NulGroups(ppm) = {})

C6_Witness ==
    /\ op = "unhide" /\ ReturnedError("STEG_BAD_MSG")
    /\ SpellsMagic(ppm)
    /\ Len(ppm) % BitsPerChar # 0

(***************************************************************************)
(* C7  No message.  When some group spells NUL, unhide fails with          *)
(* STEG_NO_MSG exactly when the bytes before the first NUL do not begin    *)
(* with "stg", and returns a message otherwise.                            *)
(***************************************************************************)
C7_NoMsgIff ==
    (op = "unhide" /\ NulGroups(ppm) # {})
        => LET magic == FirstNul(ppm) >= Len(STEG_MAGIC) /\ SpellsMagic(ppm)
           IN  /\ ReturnedError("STEG_NO_MSG") <=> ~magic
               /\ magic => ret.kind = "msg"

C7_Witness ==
    /\ op = "unhide" /\ NulGroups(ppm) # {}
    /\ FirstNul(ppm) = 2
    /\ LsbByte(ppm, 0) = STEG_MAGIC[1] /\ LsbByte(ppm, 1) = STEG_MAGIC[2]
    /\ ReturnedError("STEG_NO_MSG")

(***************************************************************************)
(* C8  Already hidden.  For a message that fits, hide fails with STEG_MSG  *)
(* exactly when the LSBs of the source's first 24 pixel bytes spell "stg"; *)
(* it then returns no image, and otherwise it returns one.                 *)
(***************************************************************************)
C8_AlreadyHiddenIff ==
    (op = "hide" /\ Fits(msgArg, Len(ppm)))
        => /\ ReturnedError("STEG_MSG") <=> SpellsMagic(ppm)
           /\ SpellsMagic(ppm) => ret.kind # "ppm"
           /\ ~SpellsMagic(ppm) => ret.kind = "ppm"

C8_Witness ==
    /\ op = "hide" /\ Fits(msgArg, Len(ppm))
    /\ SpellsMagic(ppm)
    /\ parent.made = "given"
    /\ ReturnedError("STEG_MSG")

(***************************************************************************)
(* C9  Write bit-mapping.  In the returned image the LSB of pixel byte     *)
(* 8 * k + j is bit j, the most significant first, of character k of the   *)
(* framed message, and the upper 7 bits are the source's.                  *)
(***************************************************************************)
C9_WriteMapping ==
    (op = "hide" /\ Fits(msgArg, Len(ppm)) /\ ~SpellsMagic(ppm))
        => /\ ret.kind = "ppm"
           /\ \A k \in 0..(FramedLen(msgArg) - 1) : \A j \in 0..(BitsPerChar - 1) :
                 /\ ret.ppm[BitsPerChar * k + j + 1] % 2
                       = BitOf((STEG_MAGIC \o msgArg \o <<NUL>>)[k + 1], j)
                 /\ ret.ppm[BitsPerChar * k + j + 1] \div 2
                       = ppm[BitsPerChar * k + j + 1] \div 2

C9_Witness ==
    /\ op = "hide" /\ Fits(msgArg, Len(ppm)) /\ ~SpellsMagic(ppm)
    /\ Len(msgArg) > 0
    /\ ret.kind = "ppm"
    /\ \E c \in 1..Len(ppm) : ret.ppm[c] = ppm[c] + 1
    /\ \E c \in 1..Len(ppm) : ret.ppm[c] = ppm[c] - 1

(***************************************************************************)
(* C10  Bounded access.  hide and unhide read and write pixel indices in   *)
(* 0..N-1 only: neither steps through more than N pixel bytes.             *)
(***************************************************************************)
C10_BoundedAccess ==
    op \in {"hide", "unhide"} => (counter <= Len(ppm) /\ count <= Len(ppm))

====
